---- MODULE Spec2Model ----
(***************************************************************************)
(* Model of BDALab/workbench:                                              *)
(*   tools/covariates.py   CovariateController (fit / transform)           *)
(*   tools/correlation.py  compute_correlation, assess_correlation         *)
(*   common/exports.py     save_to_excel_multi                             *)
(*                                                                         *)
(* DataFrames are objects with identity: the caller's tables live in a     *)
(* heap keyed by object id, and the controller stores a REFERENCE to the   *)
(* covariate table (self.covariates = y).  Numbers are exact rationals     *)
(* <<numerator, denominator>>.                                             *)
(***************************************************************************)
EXTENDS Integers, Sequences, FiniteSets, TLC

VARIABLES
    heap,        \* caller-visible DataFrames of the residualizer: id -> table
    inline,      \* CovariateController.inline
    regressors,  \* CovariateController.regressors : column name -> fitted model
    covariates,  \* CovariateController.covariates : "None" or the id of a table
    pc,          \* "idle", or "loop" while transform runs its column loop
    cur,         \* frame of the running transform call
    work,        \* the copy transform works on when inline is false
    ret,         \* outcome of the last completed fit/transform call
    prev,        \* outcome of the completed call before that
    calls,       \* number of completed or started controller calls
    apc,         \* position of assess_correlation / compute_correlation
    args,        \* arguments of the running assess_correlation call
    si,          \* index of the current setting
    fj,          \* index of the current feature column
    ck,          \* index of the current correlation type
    tables,      \* assess_correlation: tables
    sheets,      \* assess_correlation: sheets
    results,     \* assess_correlation: results of the current setting
    correlations,\* assess_correlation: row of the current feature
    filtered,    \* <<feat_data, clin_data>> after the missing-value filter
    handed,      \* log of every metric invocation made by the running call
    ccres,       \* outcome of the last compute_correlation call
    workbook,    \* what save_to_excel_multi wrote: sequence of <<sheet, table>>
    aret,        \* outcome of the last assess_correlation call
    acalls       \* number of started assess_correlation calls

covVars == <<heap, inline, regressors, covariates, pc, cur, work, ret, prev, calls>>
corrVars == <<apc, args, si, fj, ck, tables, sheets, results, correlations,
              filtered, handed, ccres, workbook, aret, acalls>>
vars == <<heap, inline, regressors, covariates, pc, cur, work, ret, prev, calls,
          apc, args, si, fj, ck, tables, sheets, results, correlations,
          filtered, handed, ccres, workbook, aret, acalls>>

\* Bounds on the number of calls explored.
MaxCalls == 3
MaxAssess == 2

(***************************************************************************)
(* Exact rational arithmetic (the float arithmetic of numpy / sklearn).    *)
(***************************************************************************)
Abs(a) == IF a < 0 THEN -a ELSE a

RECURSIVE GCD(_, _)
GCD(a, b) == IF b = 0 THEN a ELSE GCD(b, a % b)

Norm(n, d) ==
    LET g == GCD(Abs(n), Abs(d))
        s == IF d < 0 THEN -1 ELSE 1
    IN  <<(s * n) \div g, (s * d) \div g>>

R(n) == <<n, 1>>

\* Sums and products cancel common factors before multiplying.
RAdd(p, q) ==
    LET g == GCD(p[2], q[2])
    IN  Norm(p[1] * (q[2] \div g) + q[1] * (p[2] \div g), (p[2] \div g) * q[2])

RNeg(p) == <<-p[1], p[2]>>

RSub(p, q) == RAdd(p, RNeg(q))

RMul(p, q) ==
    LET g1 == GCD(Abs(p[1]), q[2])
        g2 == GCD(Abs(q[1]), p[2])
    IN  Norm((p[1] \div g1) * (q[1] \div g2), (p[2] \div g2) * (q[2] \div g1))

RDiv(p, q) == RMul(p, IF q[1] < 0 THEN <<-q[2], -q[1]>> ELSE <<q[2], q[1]>>)

RECURSIVE RSum(_)
RSum(s) == IF s = <<>> THEN R(0) ELSE RAdd(Head(s), RSum(Tail(s)))

(***************************************************************************)
(* sklearn.linear_model.LinearRegression on one covariate column:          *)
(* ordinary least squares, minimum-norm solution when the covariate is     *)
(* constant (coef 0).                                                      *)
(***************************************************************************)
LinearRegressionFit(xs, ys, fit_intercept) ==
    LET n    == Len(xs)
        xbar == IF fit_intercept THEN RDiv(RSum(xs), R(n)) ELSE R(0)
        ybar == IF fit_intercept THEN RDiv(RSum(ys), R(n)) ELSE R(0)
        sxx  == RSum([i \in 1..n |-> RMul(RSub(xs[i], xbar), RSub(xs[i], xbar))])
        sxy  == RSum([i \in 1..n |-> RMul(RSub(xs[i], xbar), RSub(ys[i], ybar))])
        coef == IF sxx = R(0) THEN R(0) ELSE RDiv(sxy, sxx)
    IN  [coef |-> coef, intercept |-> RSub(ybar, RMul(coef, xbar))]

Predict(model, xs) ==
    [i \in 1..Len(xs) |-> RAdd(model.intercept, RMul(model.coef, xs[i]))]

(***************************************************************************)
(* DataFrames of the residualizer.  A table has ordered column names, a    *)
(* row count (its index length) and one value sequence per column.         *)
(***************************************************************************)
EmptyTable == [cols |-> <<>>, rows |-> 0, data |-> <<>>]

Table1(c1, v1) == [cols |-> <<c1>>, rows |-> Len(v1), data |-> <<v1>>]

Table2(c1, v1, c2, v2) == [cols |-> <<c1, c2>>, rows |-> Len(v1), data |-> <<v1, v2>>]

\* The tables the caller owns.  "t0" has rows but no column, "t3" has a
\* different row count than the others.
TableIds == {"t0", "t1", "t2", "t3"}

InitHeap(v) ==
    [id \in TableIds |->
        CASE id = "t0" -> [cols |-> <<>>, rows |-> 2, data |-> <<>>]
          [] id = "t1" -> Table1("a", <<R(1), R(v)>>)
          [] id = "t2" -> Table2("a", <<R(2), R(5)>>, "b", <<R(4), R(v)>>)
          [] id = "t3" -> Table1("a", <<R(7)>>)]

\* Position of column c in table t (0 when absent).
ColPos(t, c) ==
    IF \E i \in 1..Len(t.cols) : t.cols[i] = c
    THEN CHOOSE i \in 1..Len(t.cols) : t.cols[i] = c
    ELSE 0

Column(t, c) == t.data[ColPos(t, c)]

SetColumn(t, c, vals) == [t EXCEPT !.data[ColPos(t, c)] = vals]

\* Tables usable as the covariate argument y: the regression is modelled
\* for at most one covariate column.
CovIds == {"t0", "t1", "t3"}

NoModel == [coef |-> R(0), intercept |-> R(0)]

NoCall ==
    [op |-> "none", status |-> "none", err |-> "none", X |-> "None", y |-> "None",
     inl |-> FALSE, out |-> EmptyTable, outId |-> "None", fits |-> 0,
     preReg |-> <<>>, preCov |-> "None", preCovVal |-> EmptyTable, preX |-> EmptyTable]

\* The values behind self.covariates (EmptyTable while it is None).
CovValue == IF covariates = "None" THEN EmptyTable ELSE heap[covariates]

\* self.regressors is a dict: a sequence of <<name, model>> with distinct names.
Keys(regs) == {regs[i][1] : i \in 1..Len(regs)}

\* self.regressors.get(c): the model, or None (found = FALSE).
RegressorsGet(regs, c) ==
    IF c \in Keys(regs)
    THEN [found |-> TRUE, model |-> regs[CHOOSE i \in 1..Len(regs) : regs[i][1] = c][2]]
    ELSE [found |-> FALSE, model |-> NoModel]

NoFrame ==
    [X |-> "None", c |-> 0, preReg |-> <<>>, preCov |-> "None",
     preCovVal |-> EmptyTable, preX |-> EmptyTable]

(***************************************************************************)
(* CovariateController.__init__                                            *)
(***************************************************************************)
CovInit ==
    /\ \E v \in {3, 4} : heap = InitHeap(v)
    /\ inline \in BOOLEAN
    /\ regressors = <<>>
    /\ covariates = "None"
    /\ pc = "idle"
    /\ cur = NoFrame
    /\ work = EmptyTable
    /\ ret = NoCall
    /\ prev = NoCall
    /\ calls = 0

(***************************************************************************)
(* CovariateController.fit                                                 *)
(***************************************************************************)
\* assert X.shape[0] == y.shape[0]
ShapeMismatch_off(X, y) == FALSE

ShapeMismatch(X, y) == heap[X].rows # heap[y].rows

\* LinearRegression(**params).fit(y.values, X[c].values) raises when the
\* covariate array has no column or the sample counts differ.
FitRaises(X, y) ==
    /\ Len(heap[X].cols) > 0
    /\ \/ Len(heap[y].cols) = 0
       \/ heap[X].rows # heap[y].rows

\* {c: LinearRegression(**params).fit(y.values, X[c].values) for c in X.columns}
FitAll(X, y, fit_intercept) ==
    [i \in 1..Len(heap[X].cols) |->
        <<heap[X].cols[i],
          LinearRegressionFit(heap[y].data[1], heap[X].data[i], fit_intercept)>>]

FitOutcome(X, y, status, err, fits) ==
    [NoCall EXCEPT !.op = "fit", !.status = status, !.err = err, !.X = X, !.y = y,
                   !.inl = inline, !.fits = fits, !.preReg = regressors,
                   !.preCov = covariates, !.preCovVal = CovValue, !.preX = heap[X]]

Fit(X, y, fit_intercept) ==
    /\ pc = "idle"
    /\ calls < MaxCalls
    /\ calls' = calls + 1
    /\ prev' = ret
    /\ IF ShapeMismatch(X, y)
       THEN /\ ret' = FitOutcome(X, y, "error", "AssertionError", 0)
            /\ UNCHANGED <<regressors, covariates>>
       ELSE IF FitRaises(X, y)
       THEN /\ ret' = FitOutcome(X, y, "error", "ValueError", 0)
            /\ UNCHANGED <<regressors, covariates>>
       ELSE /\ regressors' = FitAll(X, y, fit_intercept)
            /\ covariates' = y
            /\ ret' = FitOutcome(X, y, "ok", "none", Len(heap[X].cols))
    /\ UNCHANGED <<heap, inline, pc, cur, work>>
    /\ UNCHANGED corrVars

(***************************************************************************)
(* CovariateController.transform                                           *)
(***************************************************************************)
\* x = X.copy() if not self.inline else X
UsesCopy_never == FALSE

UsesCopy == ~inline

\* The DataFrame x the column loop reads and writes.
CurTable == IF UsesCopy THEN work ELSE heap[cur.X]

\* numpy: x[c].values - prediction, with broadcasting of a length-1 prediction.
Residuals(xv, pred) ==
    [i \in 1..Len(xv) |-> RSub(xv[i], IF Len(pred) = 1 THEN pred[1] ELSE pred[i])]

\* One pass of the loop body for column c of x:
\*   x[c] = x[c].values - self.regressors.get(c).predict(self.covariates.values)
ColumnOutcome_passthrough(x, c) ==
    LET g == RegressorsGet(regressors, c)
        xv == Column(x, c)
    IN  IF ~g.found
        THEN [kind |-> "skip", err |-> "none", vals |-> xv]
        ELSE IF covariates = "None"
        THEN [kind |-> "error", err |-> "AttributeError", vals |-> xv]
        ELSE IF Len(CovValue.cols) # 1
        THEN [kind |-> "error", err |-> "ValueError", vals |-> xv]
        ELSE LET pred == Predict(g.model, CovValue.data[1])
             IN  IF Len(pred) = Len(xv) \/ Len(pred) = 1
                 THEN [kind |-> "assign", err |-> "none", vals |-> Residuals(xv, pred)]
                 ELSE [kind |-> "error", err |-> "ValueError", vals |-> xv]

ColumnOutcome(x, c) ==
    LET g == RegressorsGet(regressors, c)
        xv == Column(x, c)
    IN  IF ~g.found
        THEN [kind |-> "error", err |-> "AttributeError", vals |-> xv]
        ELSE IF covariates = "None"
        THEN [kind |-> "error", err |-> "AttributeError", vals |-> xv]
        ELSE IF Len(CovValue.cols) # 1
        THEN [kind |-> "error", err |-> "ValueError", vals |-> xv]
        ELSE LET pred == Predict(g.model, CovValue.data[1])
             IN  IF Len(pred) = Len(xv) \/ Len(pred) = 1
                 THEN [kind |-> "assign", err |-> "none", vals |-> Residuals(xv, pred)]
                 ELSE [kind |-> "error", err |-> "ValueError", vals |-> xv]

TransformOutcome(status, err, out, outId) ==
    [NoCall EXCEPT !.op = "transform", !.status = status, !.err = err, !.X = cur.X,
                   !.inl = inline, !.out = out, !.outId = outId,
                   !.preReg = cur.preReg, !.preCov = cur.preCov,
                   !.preCovVal = cur.preCovVal, !.preX = cur.preX]

\* Entry of transform: the isinstance assertion and the choice of x.
TransformCall(X) ==
    /\ pc = "idle"
    /\ calls < MaxCalls
    /\ calls' = calls + 1
    /\ cur' = [X |-> X, c |-> 1, preReg |-> regressors, preCov |-> covariates,
               preCovVal |-> CovValue, preX |-> heap[X]]
    /\ work' = IF UsesCopy THEN heap[X] ELSE EmptyTable
    /\ pc' = "loop"
    /\ UNCHANGED <<heap, inline, regressors, covariates, ret, prev>>
    /\ UNCHANGED corrVars

\* One iteration of "for c in x.columns".
TransformCol ==
    /\ pc = "loop"
    /\ cur.c <= Len(CurTable.cols)
    /\ LET c == CurTable.cols[cur.c]
           o == ColumnOutcome(CurTable, c)
       IN  CASE o.kind = "error" ->
                  /\ pc' = "idle"
                  /\ prev' = ret
                  /\ ret' = TransformOutcome("error", o.err, EmptyTable, "None")
                  /\ cur' = NoFrame
                  /\ work' = EmptyTable
                  /\ UNCHANGED heap
             [] o.kind = "assign" ->
                  /\ IF UsesCopy
                     THEN /\ work' = SetColumn(work, c, o.vals)
                          /\ UNCHANGED heap
                     ELSE /\ heap' = [heap EXCEPT ![cur.X] = SetColumn(@, c, o.vals)]
                          /\ UNCHANGED work
                  /\ cur' = [cur EXCEPT !.c = @ + 1]
                  /\ UNCHANGED <<pc, ret, prev>>
             [] o.kind = "skip" ->
                  /\ cur' = [cur EXCEPT !.c = @ + 1]
                  /\ UNCHANGED <<pc, ret, prev, heap, work>>
    /\ UNCHANGED <<inline, regressors, covariates, calls>>
    /\ UNCHANGED corrVars

\* return x
TransformReturn ==
    /\ pc = "loop"
    /\ cur.c > Len(CurTable.cols)
    /\ pc' = "idle"
    /\ prev' = ret
    /\ ret' = TransformOutcome("ok", "none", CurTable,
                               IF UsesCopy THEN "fresh" ELSE cur.X)
    /\ cur' = NoFrame
    /\ work' = EmptyTable
    /\ UNCHANGED <<heap, inline, regressors, covariates, calls>>
    /\ UNCHANGED corrVars

CovNext ==
    \/ \E X \in TableIds, y \in CovIds, fi \in BOOLEAN : Fit(X, y, fi)
    \/ \E X \in TableIds : TransformCall(X)
    \/ TransformCol
    \/ TransformReturn

(***************************************************************************)
(* Correlation engine data.  A cell is <<v>> for a number and <<>> for a   *)
(* missing value (NaN).  A DataFrame has an index (row labels), ordered    *)
(* column names and one cell sequence per column.                          *)
(***************************************************************************)
NaN == <<>>

V(n) == <<n>>

\* Feature tables the caller may pass.
FeatIds == {"F_none", "F_two", "F_perm", "F_other"}

FeatData == <<<<V(1), NaN, V(3), V(4)>>, <<V(1), NaN, NaN, V(4)>>>>

FeatFrame(id) ==
    CASE id = "F_none"  -> [index |-> <<0, 1, 2, 3>>, cols |-> <<>>, data |-> <<>>]
      [] id = "F_two"   -> [index |-> <<0, 1, 2, 3>>, cols |-> <<"f1", "f2">>, data |-> FeatData]
      [] id = "F_perm"  -> [index |-> <<1, 0, 2, 3>>, cols |-> <<"f1", "f2">>, data |-> FeatData]
      [] id = "F_other" -> [index |-> <<0, 1, 2, 7>>, cols |-> <<"f1", "f2">>, data |-> FeatData]

\* The clinical table.
ClinFrame ==
    [index |-> <<0, 1, 2, 3>>, cols |-> <<"s1", "s2">>,
     data |-> <<<<V(1), V(2), NaN, V(4)>>, <<NaN, V(5), V(6), NaN>>>>]

Setting(scale, field_name, correlation) ==
    [scale |-> scale, field_name |-> field_name, correlation |-> correlation]

\* Settings lists the caller may pass.
SettingsIds == {"none", "two", "rank", "badfield", "thenbad", "badkind", "tooshort", "samescale"}

SettingsList(id) ==
    CASE id = "none"      -> <<>>
      [] id = "two"       -> <<Setting("Z", "s1", <<"pearson", "spearman">>),
                               Setting("A", "s2", <<"kendall">>)>>
      [] id = "rank"      -> <<Setting("Z", "s2", <<"spearman", "kendall", "spearman">>)>>
      [] id = "badfield"  -> <<Setting("Z", "zz", <<"spearman">>)>>
      [] id = "thenbad"   -> <<Setting("A", "s1", <<"kendall">>),
                               Setting("Z", "zz", <<"kendall">>)>>
      [] id = "badkind"   -> <<Setting("Z", "s1", <<"spearman", "spearman-rho">>)>>
      [] id = "tooshort"  -> <<Setting("Z", "s2", <<"pearson">>)>>
      [] id = "samescale" -> <<Setting("Z", "s1", <<"kendall">>),
                               Setting("Z", "s2", <<"kendall">>)>>

Pos(seq, e) ==
    IF \E i \in 1..Len(seq) : seq[i] = e
    THEN CHOOSE i \in 1..Len(seq) : seq[i] = e
    ELSE 0

Range(seq) == {seq[i] : i \in 1..Len(seq)}

(***************************************************************************)
(* compute_correlation                                                     *)
(***************************************************************************)
supported_types == <<"pearson", "spearman", "kendall">>

\* Correlation type strings tried by callers.
Kinds == {"pearson", "spearman", "kendall", "Pearson", "KENDALL", "spearman-rho", ""}

\* str.lower()
Lower(k) ==
    CASE k = "Pearson" -> "pearson"
      [] k = "KENDALL" -> "kendall"
      [] OTHER -> k

\* mapping = {"pearson": pearsonr, "spearman": spearmanr, "kendall": kendalltau}
MappingKeys == {"pearson", "spearman", "kendall"}

Mapping(k) ==
    CASE k = "pearson"  -> "pearsonr"
      [] k = "spearman" -> "spearmanr"
      [] k = "kendall"  -> "kendalltau"

\* scipy: pearsonr raises on fewer than two observations; spearmanr and
\* kendalltau return nan.
RoutineRaises(routine, x, y) == routine = "pearsonr" /\ Len(x) < 2

NoResult ==
    [status |-> "none", kind |-> "", msgKind |-> "", msgSupported |-> <<>>,
     routine |-> "none", x |-> <<>>, y |-> <<>>]

\* if corr_type not in supported_types: raise ValueError(...)
Unsupported_lowered(corr_type) == Lower(corr_type) \notin Range(supported_types)

Unsupported(corr_type) == corr_type \notin Range(supported_types)

compute_correlation(x, y, corr_type) ==
    IF Unsupported(corr_type)
    THEN [NoResult EXCEPT !.status = "ValueError", !.kind = corr_type,
                          !.msgKind = corr_type, !.msgSupported = supported_types]
    ELSE IF Lower(corr_type) \notin MappingKeys
    THEN [NoResult EXCEPT !.status = "KeyError", !.kind = corr_type]
    ELSE LET routine == Mapping(Lower(corr_type))
         IN  [NoResult EXCEPT
                !.status = IF RoutineRaises(routine, x, y) THEN "RoutineError" ELSE "ok",
                !.kind = corr_type, !.routine = routine, !.x = x, !.y = y]

(***************************************************************************)
(* The missing-value filter of assess_correlation (lines 95-101).          *)
(***************************************************************************)
\* Series.isnull()
IsNull(series) == [index |-> series.index,
                   values |-> [i \in 1..Len(series.values) |-> series.values[i] = NaN]]

RECURSIVE SortSet(_)
SortSet(S) ==
    IF S = {} THEN <<>>
    ELSE LET m == CHOOSE a \in S : \A b \in S : a <= b
         IN  <<m>> \o SortSet(S \ {m})

\* Value of a boolean Series at a label; a label it lacks counts as False.
AtLabel(series, l) ==
    IF l \in Range(series.index) THEN series.values[Pos(series.index, l)] ELSE FALSE

\* pandas  a | b  on two Series: positional when the indexes are equal,
\* otherwise aligned on the sorted union of the row labels.
SeriesOr(a, b) ==
    IF a.index = b.index
    THEN [index |-> a.index,
          values |-> [i \in 1..Len(a.values) |-> a.values[i] \/ b.values[i]]]
    ELSE LET idx == SortSet(Range(a.index) \cup Range(b.index))
         IN  [index |-> idx,
              values |-> [i \in 1..Len(idx) |-> AtLabel(a, idx[i]) \/ AtLabel(b, idx[i])]]

RECURSIVE Take(_, _, _)
\* numpy boolean indexing values[mask], from position i on.
Take(values, mask, i) ==
    IF i > Len(values) THEN <<>>
    ELSE (IF mask[i] THEN <<values[i]>> ELSE <<>>) \o Take(values, mask, i + 1)

SeriesOf(frame, c) == [index |-> frame.index, values |-> frame.data[Pos(frame.cols, c)]]

\* Lines 95-101: the two filtered arrays, or IndexError when the mask and
\* the arrays differ in length.
FilterPair(feat_data, clin_data) ==
    LET with_nans == SeriesOr(IsNull(clin_data), IsNull(feat_data))
        keep == [i \in 1..Len(with_nans.values) |-> ~with_nans.values[i]]
    IN  IF Len(keep) # Len(clin_data.values) \/ Len(keep) # Len(feat_data.values)
        THEN [status |-> "IndexError", feat |-> <<>>, clin |-> <<>>]
        ELSE [status |-> "ok",
              feat |-> Take(feat_data.values, keep, 1),
              clin |-> Take(clin_data.values, keep, 1)]

(***************************************************************************)
(* common/exports.py                                                       *)
(***************************************************************************)
\* save_to_excel_multi: one to_excel call per table, in order, on the sheet
\* sheet_names[n] (or "Sheet<n>" when no sheet names are given).
save_to_excel_multi(dfs, sheet_names) ==
    [n \in 1..Len(dfs) |->
        <<IF sheet_names # <<>> THEN sheet_names[n] ELSE "Sheet", dfs[n]>>]

(***************************************************************************)
(* assess_correlation                                                      *)
(***************************************************************************)
NoArgs == [feat |-> "F_none", settings |-> "none"]

NoAssess == [status |-> "none", err |-> "none", tables |-> <<>>]

NoWorkbook == [called |-> FALSE, writes |-> <<>>]

df_feat == FeatFrame(args.feat)

df_clin == ClinFrame

computation_settings == SettingsList(args.settings)

setting == computation_settings[si]

\* dict.update({key: value}): replace the value of a present key in place,
\* append a new key.
DictUpdate(d, key, value) ==
    IF \E i \in 1..Len(d) : d[i][1] = key
    THEN [i \in 1..Len(d) |-> IF d[i][1] = key THEN <<key, value>> ELSE d[i]]
    ELSE Append(d, <<key, value>>)

DictKeys(d) == {d[i][1] : i \in 1..Len(d)}

DictGet(d, key) == d[CHOOSE i \in 1..Len(d) : d[i][1] = key][2]

\* A cell of a result row: the feature name, or round(float(statistic), 4)
\* of the named routine on the pair of arrays it was given.
Cell(feat, routine, x, y) == [feat |-> feat, routine |-> routine, x |-> x, y |-> y]

CorrInit ==
    /\ apc = "idle"
    /\ args = NoArgs
    /\ si = 0
    /\ fj = 0
    /\ ck = 0
    /\ tables = <<>>
    /\ sheets = <<>>
    /\ results = <<>>
    /\ correlations = <<>>
    /\ filtered = <<<<>>, <<>>>>
    /\ handed = <<>>
    /\ ccres = NoResult
    /\ workbook = NoWorkbook
    /\ aret = NoAssess
    /\ acalls = 0

\* The call fails: the exception leaves assess_correlation.
Raise(err) ==
    /\ apc' = "idle"
    /\ aret' = [status |-> "error", err |-> err, tables |-> <<>>]

\* A caller invokes compute_correlation directly.
ComputeCall(x, y, corr_type) ==
    /\ apc = "idle"
    /\ ccres' = compute_correlation(x, y, corr_type)
    /\ UNCHANGED <<apc, args, si, fj, ck, tables, sheets, results, correlations,
                   filtered, handed, workbook, aret, acalls>>
    /\ UNCHANGED covVars

\* Entry: tables = [], sheets = [].
AssessCall(f, s) ==
    /\ apc = "idle"
    /\ acalls < MaxAssess
    /\ acalls' = acalls + 1
    /\ args' = [feat |-> f, settings |-> s]
    /\ tables' = <<>>
    /\ sheets' = <<>>
    /\ results' = <<>>
    /\ correlations' = <<>>
    /\ filtered' = <<<<>>, <<>>>>
    /\ handed' = <<>>
    /\ workbook' = NoWorkbook
    /\ aret' = NoAssess
    /\ si' = 1
    /\ fj' = 0
    /\ ck' = 0
    /\ apc' = "settings"
    /\ UNCHANGED ccres
    /\ UNCHANGED covVars

\* for setting in computation_settings: results = []
SettingStep ==
    /\ apc = "settings"
    /\ IF si <= Len(computation_settings)
       THEN /\ results' = <<>>
            /\ fj' = 1
            /\ apc' = "features"
       ELSE /\ apc' = "save"
            /\ UNCHANGED <<results, fj>>
    /\ UNCHANGED <<args, si, ck, tables, sheets, correlations, filtered, handed,
                   ccres, workbook, aret, acalls>>
    /\ UNCHANGED covVars

\* tables.append(pd.DataFrame(results))
AppendTable_front(ts, df) == <<df>> \o ts

AppendTable(ts, df) == Append(ts, df)

\* for feat in df_feat: select the two columns, filter the missing values,
\* start the row; after the last feature append the table and the sheet.
FeatureStep ==
    /\ apc = "features"
    /\ IF fj <= Len(df_feat.cols)
       THEN IF setting.field_name \notin Range(df_clin.cols)
            THEN /\ Raise("KeyError")
                 /\ UNCHANGED <<filtered, correlations, ck, tables, sheets, si>>
            ELSE LET feat == df_feat.cols[fj]
                     p == FilterPair(SeriesOf(df_feat, feat),
                                     SeriesOf(df_clin, setting.field_name))
                 IN  IF p.status # "ok"
                     THEN /\ Raise(p.status)
                          /\ UNCHANGED <<filtered, correlations, ck, tables, sheets, si>>
                     ELSE /\ filtered' = <<p.feat, p.clin>>
                          /\ correlations' = <<<<<<"feature", "">>, Cell(feat, "none", <<>>, <<>>)>>>>
                          /\ ck' = 1
                          /\ apc' = "corrs"
                          /\ UNCHANGED <<aret, tables, sheets, si>>
       ELSE /\ tables' = AppendTable(tables, results)
            /\ sheets' = Append(sheets, setting.scale)
            /\ si' = si + 1
            /\ apc' = "settings"
            /\ UNCHANGED <<filtered, correlations, ck, aret>>
    /\ UNCHANGED <<args, fj, results, handed, ccres, workbook, acalls>>
    /\ UNCHANGED covVars

\* for corr in setting.get("correlation"): compute and update the row;
\* after the last one results.append(correlations).
CorrStep ==
    /\ apc = "corrs"
    /\ IF ck <= Len(setting.correlation)
       THEN LET corr == setting.correlation[ck]
                feat == df_feat.cols[fj]
                res == compute_correlation(filtered[1], filtered[2], corr)
            IN  /\ ccres' = res
                /\ handed' = IF res.routine # "none"
                             THEN Append(handed, [si |-> si, feat |-> feat, corr |-> corr,
                                                  x |-> res.x, y |-> res.y])
                             ELSE handed
                /\ IF res.status # "ok"
                   THEN /\ Raise(res.status)
                        /\ UNCHANGED <<correlations, ck>>
                   ELSE /\ correlations' =
                             DictUpdate(
                               DictUpdate(correlations, <<"r", corr>>,
                                          Cell(feat, res.routine, res.x, res.y)),
                               <<"p", corr>>, Cell(feat, res.routine, res.x, res.y))
                        /\ ck' = ck + 1
                        /\ UNCHANGED <<apc, aret>>
                /\ UNCHANGED <<results, fj>>
       ELSE /\ results' = Append(results, correlations)
            /\ fj' = fj + 1
            /\ apc' = "features"
            /\ UNCHANGED <<correlations, ck, ccres, handed, aret>>
    /\ UNCHANGED <<args, si, tables, sheets, filtered, workbook, acalls>>
    /\ UNCHANGED covVars

\* save_to_excel_multi(tables, ...); return tables
SaveStep ==
    /\ apc = "save"
    /\ workbook' = [called |-> TRUE, writes |-> save_to_excel_multi(tables, sheets)]
    /\ aret' = [status |-> "ok", err |-> "none", tables |-> tables]
    /\ apc' = "idle"
    /\ UNCHANGED <<args, si, fj, ck, tables, sheets, results, correlations,
                   filtered, handed, ccres, acalls>>
    /\ UNCHANGED covVars

\* Arrays a caller hands to compute_correlation directly.
Arrays == {<<>>, <<V(1), V(4)>>}

CorrNext ==
    \/ \E x \in Arrays, k \in Kinds : ComputeCall(x, x, k)
    \/ \E f \in FeatIds, s \in SettingsIds : AssessCall(f, s)
    \/ SettingStep
    \/ FeatureStep
    \/ CorrStep
    \/ SaveStep

(***************************************************************************)
(* Specifications: the residualizer alone, the correlation engine alone.   *)
(***************************************************************************)
Init == CovInit /\ CorrInit

Next == CovNext

Spec == Init /\ [][Next]_vars

SpecCorr == Init /\ [][CorrNext]_vars

(***************************************************************************)
(* Properties of the residualizer (checked under Spec).                    *)
(***************************************************************************)

\* C1: on an instance on which fit has never succeeded, every transform call
\* ends in an error; transform returns a table only once the instance is
\* Fitted.
C1_TransformNeedsFit ==
    (ret.op = "transform" /\ ret.status = "ok") => ret.preCov # "None"

\* C2: fit(X, y) with X.row_count # y.row_count fails before any per-feature
\* model is fitted and leaves regressors and the stored covariates as they
\* were, on an Untrained and on a Fitted instance.
C2_ShapeMismatchRejected ==
    (pc = "idle" /\ ret.op = "fit" /\ ret.preX.rows # heap[ret.y].rows)
        => /\ ret.status = "error"
           /\ ret.fits = 0
           /\ regressors = ret.preReg
           /\ covariates = ret.preCov
           /\ CovValue = ret.preCovVal

C2_Witness ==
    /\ pc = "idle"
    /\ ret.op = "fit"
    /\ ret.preX.rows # heap[ret.y].rows
    /\ ret.preCov # "None"
    /\ ret.preReg # <<>>
    /\ ret.status = "error"

\* C3: transform is read-only on the fitted state: at every step of a
\* transform call (entry, each column, return) the regressors, the stored
\* covariate reference and the stored covariate values stay as they were.
C3_TransformReadOnly ==
    [][(pc = "loop" \/ pc' = "loop")
          => /\ regressors' = regressors
             /\ covariates' = covariates
             /\ CovValue' = CovValue]_vars

\* Two successful transform calls in a row on a fitted instance with the same
\* input table.
RepeatedTransform ==
    /\ pc = "idle"
    /\ ret.op = "transform" /\ ret.status = "ok"
    /\ prev.op = "transform" /\ prev.status = "ok"
    /\ ret.X = prev.X
    /\ ret.preCov # "None"

\* C4 (as stated): two transform calls in a row with the same input table
\* give identical output, for every value of inline.
C4_RepeatSameOutput == RepeatedTransform => ret.out = prev.out

\* C4 (amended): with inline false, two transform calls in a row with the
\* same input table give identical output.
C4_RepeatSameOutputCopy == (RepeatedTransform /\ ~ret.inl) => ret.out = prev.out

C4_Witness ==
    /\ RepeatedTransform
    /\ ~ret.inl
    /\ ret.out # ret.preX
    /\ ret.out.cols # <<>>

\* C5: with inline false transform leaves every cell of the caller's table
\* unchanged and returns a distinct table with the same columns in the same
\* order; a caller's table is modified only when inline is true.
C5_CopyByDefault ==
    /\ ~inline => heap \in {InitHeap(3), InitHeap(4)}
    /\ (ret.op = "transform" /\ ret.status = "ok" /\ ~ret.inl)
          => /\ heap[ret.X] = ret.preX
             /\ ret.outId # ret.X
             /\ ret.out.cols = ret.preX.cols
             /\ ret.out.rows = ret.preX.rows

C5_Witness ==
    /\ pc = "idle"
    /\ ret.op = "transform" /\ ret.status = "ok" /\ ~ret.inl
    /\ Len(ret.preX.cols) = 2
    /\ ret.out.data[1] # ret.preX.data[1]
    /\ ret.out.data[2] # ret.preX.data[2]

\* C6: on a fitted instance, transform of a table with a column that has no
\* fitted regressor ends in an error.
C6_UnknownColumnIsError ==
    (ret.op = "transform" /\ ret.preCov # "None"
        /\ \E c \in Range(ret.preX.cols) : c \notin Keys(ret.preReg))
        => ret.status = "error"

C6_Witness ==
    /\ ret.op = "transform"
    /\ ret.preCov # "None"
    /\ "a" \in Keys(ret.preReg)
    /\ "b" \notin Keys(ret.preReg)
    /\ ret.preX.cols = <<"a", "b">>
    /\ ret.status = "error"

(***************************************************************************)
(* Properties of the correlation engine (checked under SpecCorr).          *)
(***************************************************************************)

\* C7: compute_correlation raises the unsupported-type error, naming the
\* type and listing (pearson, spearman, kendall), for every type that is not
\* one of the three, and dispatches to the matching routine for each of the
\* three; no other outcome occurs.
C7_UnsupportedMetric ==
    ccres.status # "none" =>
        IF ccres.kind \in {"pearson", "spearman", "kendall"}
        THEN /\ ccres.status \in {"ok", "RoutineError"}
             /\ ccres.kind = "pearson" => ccres.routine = "pearsonr"
             /\ ccres.kind = "spearman" => ccres.routine = "spearmanr"
             /\ ccres.kind = "kendall" => ccres.routine = "kendalltau"
        ELSE /\ ccres.status = "ValueError"
             /\ ccres.msgKind = ccres.kind
             /\ ccres.msgSupported = <<"pearson", "spearman", "kendall">>
             /\ ccres.routine = "none"

C7_Witness ==
    /\ ccres.kind = "Pearson"
    /\ ccres.status = "ValueError"
    /\ ccres.msgKind = "Pearson"

RECURSIVE BothPresent(_, _, _, _)
\* The values of src at the positions, from i on, where neither a nor b is
\* missing.
BothPresent(a, b, src, i) ==
    IF i > Len(src) THEN <<>>
    ELSE (IF a[i] # NaN /\ b[i] # NaN THEN <<src[i]>> ELSE <<>>)
         \o BothPresent(a, b, src, i + 1)

\* C8: the pair of arrays handed to the metric holds exactly the values at
\* the positions where both the feature and the target are present, in
\* order, and the two arrays have the same length.
C8_PairwiseFilter ==
    \A n \in 1..Len(handed) :
        LET h == handed[n]
            f == SeriesOf(df_feat, h.feat).values
            c == SeriesOf(df_clin, computation_settings[h.si].field_name).values
        IN  /\ h.x = BothPresent(f, c, f, 1)
            /\ h.y = BothPresent(f, c, c, 1)
            /\ Len(h.x) = Len(h.y)

\* C9: a completed assess_correlation call has produced one table per
\* setting in the order of the settings, handed them to the exporter under
\* the sheet names scale(1), scale(2), ..., each table with one row per
\* feature column in column order, each row with an r and a p entry for
\* every correlation type of its setting.
C9_TablesPerSetting ==
    (apc = "idle" /\ aret.status = "ok") =>
        /\ Len(aret.tables) = Len(computation_settings)
        /\ workbook.called
        /\ Len(workbook.writes) = Len(computation_settings)
        /\ \A i \in 1..Len(computation_settings) :
              /\ i <= Len(aret.tables)
              /\ i <= Len(workbook.writes)
              /\ workbook.writes[i] = <<computation_settings[i].scale, aret.tables[i]>>
              /\ Len(aret.tables[i]) = Len(df_feat.cols)
              /\ \A j \in 1..Len(aret.tables[i]) :
                    LET row == aret.tables[i][j]
                    IN  /\ <<"feature", "">> \in DictKeys(row)
                        /\ DictGet(row, <<"feature", "">>).feat = df_feat.cols[j]
                        /\ \A m \in Range(computation_settings[i].correlation) :
                              /\ <<"r", m>> \in DictKeys(row)
                              /\ <<"p", m>> \in DictKeys(row)

C9_Witness ==
    /\ apc = "idle"
    /\ aret.status = "ok"
    /\ args.settings = "two"
    /\ args.feat = "F_two"
    /\ Len(aret.tables) = 2
    /\ Len(aret.tables[1]) = 2

\* C10: a call with a setting whose field_name is not a column of the target
\* table fails, for every feature table; it returns no tables and does not
\* invoke the exporter.
C10_UnknownFieldFails ==
    (apc = "idle" /\ acalls > 0
        /\ \E i \in 1..Len(computation_settings) :
              computation_settings[i].field_name \notin Range(df_clin.cols))
        => (aret.status = "error" /\ ~workbook.called)

====
